---- MODULE Spec2Model ----
(***************************************************************************)
(* typescript-memoize: the Memoize decorator (src/src/memoize-decorator.ts) *)
(* as a state machine.  A class with memoized members is instantiated, its  *)
(* members are called (possibly re-entrantly, from inside another member's  *)
(* body), tags are cleared, the clock advances and argument objects are     *)
(* mutated by their owner.                                                  *)
(***************************************************************************)
EXTENDS Integers, Sequences, FiniteSets, TLC

\* ------------------------------------------------------------------ bounds
\* calls of memoized members in one run of a class
MaxCalls == 3
\* calls in the run of the class of the "should be cleared" test (6 needed)
TestedCalls == 6
\* the clock runs from 0 to MaxTime
MaxTime == 2

\* the expiration window of the expiring members, in clock ticks
Window == 1

\* --------------------------------------------------------------- JS values
\* Every JavaScript value of the model is a record of one shape:
\*   t  the kind of value, s  its text, n  its number / reference / instance,
\*   e  its elements (arrays, timestamp keys, results)
Val(t, s, n, e) == [t |-> t, s |-> s, n |-> n, e |-> e]
Undefined == Val("undefined", "", 0, <<>>)
Str(s) == Val("string", s, 0, <<>>)
Num(n) == Val("number", "", n, <<>>)
\* a reference to an object of the caller, its content is on the heap
Ref(r) == Val("ref", "", r, <<>>)
\* an instance of the decorated class (`this`)
Inst(i) == Val("instance", "", i, <<>>)
\* an array created by the wrapper itself (the rest parameter `args`)
Arr(e) == Val("array", "", 0, e)
\* a plain object literal with content c (heap content)
Obj(c) == Val("object", c, 0, <<>>)
\* the values that count as false: undefined, null, 0, false and ''
Null == Val("null", "", 0, <<>>)
False == Val("boolean", "false", 0, <<>>)
Falsy == {Undefined, Null, Num(0), False, Str("")}
\* what the original method of member m returns at its n-th invocation, for
\* arguments a: a value of its own, or for the methods that return one of
\* the false values, that value (v), marked with the invocation it is from
Result(m, v, a, n) ==
    IF v = "value" THEN Val("result", m, n, a) ELSE Val(v, m, n, a)
\* the value without the mark
Returned(v) ==
    CASE v.t = "undefined" -> Undefined
      [] v.t = "null" -> Null
      [] v.t = "zero" -> Num(0)
      [] v.t = "false" -> False
      [] v.t = "empty" -> Str("")
      [] OTHER -> v

\* the contents an argument object can have
Contents == {Obj("A"), Obj("B")}

\* v with every reference replaced by the content it has now
RECURSIVE Deref(_, _)
Deref(v, hp) ==
    IF v.t = "ref" THEN hp[v.n]
    ELSE IF v.e = <<>> THEN v
    ELSE [v EXCEPT !.e = [k \in 1..Len(v.e) |-> Deref(v.e[k], hp)]]

\* (a comparison of references in place of fast-deep-equal)
equalByReference(a, b, hp) == a = b
\* fast-deep-equal: structural equality of two values
equal(a, b, hp) == Deref(a, hp) = Deref(b, hp)

\* String(v) / v.toString() / `${v}`
RECURSIVE JoinWith(_, _)
JoinWith(strs, sep) ==
    IF strs = <<>> THEN ""
    ELSE IF Len(strs) = 1 THEN strs[1]
    ELSE strs[1] \o sep \o JoinWith(Tail(strs), sep)

toString(v) ==
    CASE v.t = "string" -> v.s
      [] v.t = "number" -> ToString(v.n)
      [] v.t = "undefined" -> "undefined"
      [] OTHER -> "[object Object]"

\* ---------------------------------------------------------------- Map
\* A Map is the sequence of its entries in insertion order.
Entry(k, v) == [key |-> k, value |-> v]

Map_has(map, key) == \E x \in 1..Len(map) : map[x].key = key

Map_get(map, key) ==
    IF Map_has(map, key)
    THEN map[CHOOSE x \in 1..Len(map) : map[x].key = key].value
    ELSE Undefined

\* (a set that drops the other entries of the map)
Map_setAlone(map, key, value) == <<Entry(key, value)>>

Map_set(map, key, value) ==
    IF Map_has(map, key)
    THEN [x \in 1..Len(map) |->
            IF map[x].key = key THEN Entry(key, value) ELSE map[x]]
    ELSE Append(map, Entry(key, value))

\* ---------------------------------------------------------- DeepEqualMap
\* index of the first entry whose key is deep-equal to key, 0 when none
DeepEqualMap_find(map, key, hp) ==
    IF \E x \in 1..Len(map) : equal(map[x].key, key, hp)
    THEN CHOOSE x \in 1..Len(map) :
            /\ equal(map[x].key, key, hp)
            /\ \A y \in 1..(x - 1) : ~equal(map[y].key, key, hp)
    ELSE 0

DeepEqualMap_has(map, key, hp) == DeepEqualMap_find(map, key, hp) # 0

DeepEqualMap_get(map, key, hp) ==
    IF DeepEqualMap_find(map, key, hp) # 0
    THEN map[DeepEqualMap_find(map, key, hp)].value
    ELSE Undefined

\* (a set that does not look for an entry to replace)
DeepEqualMap_setAppending(map, key, value, hp) == Append(map, Entry(key, value))

DeepEqualMap_set(map, key, value, hp) ==
    LET x == DeepEqualMap_find(map, key, hp)
        kept == IF x = 0 THEN map
                ELSE SubSeq(map, 1, x - 1) \o SubSeq(map, x + 1, Len(map))
    IN  Append(kept, Entry(key, value))

\* ------------------------------------------------------------- Memoize
\* The argument of the decorator: nothing, an options object, `true` or a
\* function.  expiring 0 and hasTags FALSE stand for an absent option.
NoOptions ==
    [type |-> "undefined", hashFunction |-> "undefined", expiring |-> 0,
     hasTags |-> FALSE, tags |-> <<>>, useDeepEqual |-> "undefined"]
Options(hf, expiring, hasTags, tags, deep) ==
    [type |-> "object", hashFunction |-> hf, expiring |-> expiring,
     hasTags |-> hasTags, tags |-> tags, useDeepEqual |-> deep]
Bare(hf) ==
    [NoOptions EXCEPT !.type = IF hf = "true" THEN "boolean" ELSE "function",
                      !.hashFunction = hf]

\* useDeepEqual as the decorator resolves it (args.useDeepEqual ?? false)
useDeepEqualOf(args) ==
    IF args.type = "object" THEN args.useDeepEqual = "true" ELSE FALSE

\* what Memoize(args) hands to getNewFunction
Memoize(args) ==
    IF args.type = "object"
    THEN [hashFunction |-> args.hashFunction, duration |-> args.expiring,
          hasTags |-> args.hasTags, tags |-> args.tags,
          useDeepEqual |-> useDeepEqualOf(args)]
    ELSE [hashFunction |-> args.hashFunction, duration |-> 0,
          hasTags |-> FALSE, tags |-> <<>>,
          useDeepEqual |-> useDeepEqualOf(args)]

MemoizeExpiring(expiring, hf) ==
    Memoize(Options(hf, expiring, FALSE, <<>>, "undefined"))

\* ------------------------------------------------- the decorated members
Greetings ==
    { <<Str("Hola"), Str("Mundo")>>, <<Str("Hola"), Str("Mars")>>,
      <<Str("Ciao"), Str("Mundo")>> }
HelloGreetings == { <<Str("Hello"), Str("World")>>, <<Str("Hello"), Str("Moon")>> }
\* argument lists of strings, two of them with the delimiter '!' in a string
Delimited ==
    { <<Str("Hello"), Str("World")>>, <<Str("Hello"), Str("Moon")>>,
      <<Str("Hello!World"), Str("Moon")>>, <<Str("Hello"), Str("World!Moon")>> }
\* a planet whose name ends like the key of a timestamp
Planets ==
    { <<Str("Darryl"), Str("Earth")>>, <<Str("Darryl"), Str("Earth__timestamp")>> }
Sums == { <<Num(2), Num(1)>>, <<Num(2), Num(2)>> }
Objects == { <<Ref(1)>>, <<Ref(2)>> }
TestObjects == { <<Ref(1)>>, <<Ref(2)>>, <<Ref(3)>> }
Nothing == { <<>> }
\* no argument, the one argument [1, 2] and the two arguments 1 and 2
Lists == { <<>>, <<Arr(<<Num(1), Num(2)>>)>>, <<Num(1), Num(2)>> }

\* the property descriptor of a method, of a get accessor and of an accessor
\* that has a setter only
Method == [value |-> "function", get |-> "undefined", set |-> "undefined"]
Getter == [value |-> "undefined", get |-> "function", set |-> "undefined"]
Setter == [value |-> "undefined", get |-> "undefined", set |-> "function"]

\* a member: the decorator's argument, what the decorator makes of it, the
\* argument lists the member is called with and its descriptor
Member(decorator, params) ==
    [decorator |-> decorator, config |-> Memoize(decorator), params |-> params,
     descriptor |-> Method, returns |-> "value"]
\* a member whose method returns v
Returning(v, member) == [member EXCEPT !.returns = v]
MemberExpiring(expiring, params) ==
    [decorator |-> Options("undefined", expiring, FALSE, <<>>, "undefined"),
     config |-> MemoizeExpiring(expiring, "undefined"), params |-> params,
     descriptor |-> Method, returns |-> "value"]
Accessor(decorator, descriptor) ==
    [Member(decorator, Nothing) EXCEPT !.descriptor = descriptor]

\* the function Memoize(args) returns, applied to a descriptor: the
\* descriptor afterwards and what is thrown ("" when nothing is)
OnlyPut == "Only put a Memoize() decorator on a method or get accessor."
\* (a decorator that leaves a descriptor it cannot wrap alone, silently)
decorateLeniently(descriptor) ==
    IF descriptor.value # "undefined"
    THEN [descriptor |-> [descriptor EXCEPT !.value = "getNewFunction"], thrown |-> ""]
    ELSE IF descriptor.get # "undefined"
    THEN [descriptor |-> [descriptor EXCEPT !.get = "getNewFunction"], thrown |-> ""]
    ELSE [descriptor |-> descriptor, thrown |-> ""]
decorate(descriptor) ==
    IF descriptor.value # "undefined"
    THEN [descriptor |-> [descriptor EXCEPT !.value = "getNewFunction"], thrown |-> ""]
    ELSE IF descriptor.get # "undefined"
    THEN [descriptor |-> [descriptor EXCEPT !.get = "getNewFunction"], thrown |-> ""]
    ELSE [descriptor |-> descriptor, thrown |-> OnlyPut]

\* the members of the test classes and of the README's classes
Members ==
    [ getNumber |-> Member(NoOptions, Nothing),
      value |-> Accessor(NoOptions, Getter),
      setValue |-> Accessor(NoOptions, Setter),
      getGreeting |-> Member(NoOptions, Greetings),
      getGreetingShallow |->
          Member(Options("undefined", 0, FALSE, <<>>, "false"), Greetings),
      multiply |-> Member(Bare("function"), Sums),
      multiply3 |-> Member(Options("function", 0, FALSE, <<>>, "undefined"), Sums),
      getSameBetterGreeting |->
          Member(Options("function", Window, FALSE, <<>>, "undefined"), Planets),
      getGreeting2 |-> Member(Bare("true"), Delimited),
      getGreeting4 |->
          Member(Options("true", 0, TRUE, <<"foo", "bar">>, "undefined"), HelloGreetings),
      getClearableSum |->
          Member(Options("undefined", 0, TRUE, <<"bar">>, "undefined"), Sums),
      processObject |->
          Member(Options("undefined", 0, FALSE, <<>>, "true"), TestObjects),
      processList |->
          Member(Options("undefined", 0, FALSE, <<>>, "true"), Lists),
      processTagged |->
          Member(Options("undefined", 0, TRUE, <<"foo", "bar">>, "true"), Objects),
      processArrayDeep |->
          Member(Options("undefined", Window, FALSE, <<>>, "true"), Objects),
      getDataForSomeTime |-> MemberExpiring(Window, Nothing),
      getUndefined |-> Returning("undefined", Member(NoOptions, Nothing)),
      getFalse |-> Returning("false", Member(NoOptions, Nothing)),
      getZero |-> Returning("zero", Member(NoOptions, Sums)),
      getEmpty |-> Returning("empty", Member(Bare("true"), Sums)),
      processNull |->
          Returning("null", Member(Options("undefined", 0, FALSE, <<>>, "true"), Objects)),
      processComplexObject |->
          Member(Options("undefined", Window, TRUE, <<"objects">>, "undefined"), Objects) ]

MemberNames == DOMAIN Members
\* the members in the order of their declaration
Declaration ==
    << "getNumber", "value", "setValue", "getGreeting", "getGreetingShallow",
       "multiply", "multiply3", "getGreeting2", "getSameBetterGreeting",
       "getGreeting4", "getClearableSum", "processObject", "processList", "processTagged",
       "processArrayDeep", "getDataForSomeTime", "processComplexObject",
       "getUndefined", "getFalse", "getZero", "getEmpty", "processNull" >>
Config(m) == Members[m].config
TagsOf(m) == IF Config(m).hasTags
             THEN {Config(m).tags[x] : x \in 1..Len(Config(m).tags)} ELSE {}

\* -------------------------------------------------------- getNewFunction
\* the user's hash function of the tests, applied to `this` and the
\* arguments: (a, b) => a + ';' + b
userHashFunction(this, args) ==
    Str(toString(IF Len(args) >= 1 THEN args[1] ELSE Undefined) \o ";" \o
        toString(IF Len(args) >= 2 THEN args[2] ELSE Undefined))

\* (a key made of every argument where the code takes the first one)
hashKeyOfAllArguments(cfg, this, args) ==
    IF cfg.useDeepEqual
    THEN IF cfg.hashFunction = "true" THEN Arr(args)
         ELSE IF cfg.hashFunction = "function" THEN userHashFunction(this, args)
         ELSE IF Len(args) > 0
              THEN (IF Len(args) = 1 THEN args[1] ELSE Arr(args))
         ELSE Inst(this)
    ELSE IF cfg.hashFunction # "undefined" \/ Len(args) > 0 \/ cfg.duration > 0
         THEN IF cfg.hashFunction = "function" THEN userHashFunction(this, args)
              ELSE Str(JoinWith([x \in 1..Len(args) |-> toString(args[x])], "!"))
         ELSE Inst(this)
\* (a key for which the user's hash function is not consulted)
hashKeyOfFirstArgument(cfg, this, args) ==
    IF cfg.useDeepEqual
    THEN IF cfg.hashFunction = "true" THEN Arr(args)
         ELSE IF Len(args) > 0
              THEN (IF Len(args) = 1 THEN args[1] ELSE Arr(args))
         ELSE Inst(this)
    ELSE IF cfg.hashFunction # "undefined" \/ Len(args) > 0 \/ cfg.duration > 0
         THEN IF cfg.hashFunction = "true"
              THEN Str(JoinWith([x \in 1..Len(args) |-> toString(args[x])], "!"))
              ELSE IF Len(args) > 0 THEN args[1] ELSE Undefined
         ELSE Inst(this)
\* the cache key of a call
hashKey(cfg, this, args) ==
    IF cfg.useDeepEqual
    THEN IF cfg.hashFunction = "true" THEN Arr(args)
         ELSE IF cfg.hashFunction = "function" THEN userHashFunction(this, args)
         ELSE IF Len(args) > 0
              THEN (IF Len(args) = 1 THEN args[1] ELSE Arr(args))
         ELSE Inst(this)
    ELSE IF cfg.hashFunction # "undefined" \/ Len(args) > 0 \/ cfg.duration > 0
         THEN IF cfg.hashFunction = "true"
              THEN Str(JoinWith([x \in 1..Len(args) |-> toString(args[x])], "!"))
              ELSE IF cfg.hashFunction = "function" THEN userHashFunction(this, args)
              ELSE IF Len(args) > 0 THEN args[1] ELSE Undefined
         ELSE Inst(this)

\* the key under which the time of the store is recorded
timestampKey(cfg, key) ==
    IF cfg.useDeepEqual
    THEN Val("timestamp", "", 0, <<key>>)
    ELSE Str(toString(key) \o "__timestamp")

has(cfg, map, key, hp) ==
    IF cfg.useDeepEqual THEN DeepEqualMap_has(map, key, hp) ELSE Map_has(map, key)
get(cfg, map, key, hp) ==
    IF cfg.useDeepEqual THEN DeepEqualMap_get(map, key, hp) ELSE Map_get(map, key)
set(cfg, map, key, value, hp) ==
    IF cfg.useDeepEqual THEN DeepEqualMap_set(map, key, value, hp)
    ELSE Map_set(map, key, value)

\* (a window that ends one tick early: >= in place of >)
isExpiredAtWindow(cfg, map, key, time, hp) ==
    IF cfg.duration > 0
    THEN IF ~has(cfg, map, timestampKey(cfg, key), hp) THEN TRUE
         ELSE LET timestamp == get(cfg, map, timestampKey(cfg, key), hp)
              IN  timestamp.t = "number" /\ (time - timestamp.n) >= cfg.duration
    ELSE FALSE
\* (a missing timestamp record read as fresh)
isExpiredWhenStamped(cfg, map, key, time, hp) ==
    IF cfg.duration > 0
    THEN IF ~has(cfg, map, timestampKey(cfg, key), hp) THEN FALSE
         ELSE LET timestamp == get(cfg, map, timestampKey(cfg, key), hp)
              IN  timestamp.t = "number" /\ (time - timestamp.n) > cfg.duration
    ELSE FALSE
\* Date.now() - timestamp > duration; a timestamp that is no number gives NaN
isExpired(cfg, map, key, time, hp) ==
    IF cfg.duration > 0
    THEN IF ~has(cfg, map, timestampKey(cfg, key), hp) THEN TRUE
         ELSE LET timestamp == get(cfg, map, timestampKey(cfg, key), hp)
              IN  timestamp.t = "number" /\ (time - timestamp.n) > cfg.duration
    ELSE FALSE

\* (the lookup with the negation of isExpired lost)
isHitNegationLost(cfg, map, key, time, hp) ==
    has(cfg, map, key, hp) /\ isExpired(cfg, map, key, time, hp)
\* (a lookup that takes a cached false value for a missing one)
isHitTruthy(cfg, map, key, time, hp) ==
    Returned(get(cfg, map, key, hp)) \notin Falsy /\ ~isExpired(cfg, map, key, time, hp)
\* myMap.has(hashKey) && !isExpired
isHit(cfg, map, key, time, hp) ==
    has(cfg, map, key, hp) /\ ~isExpired(cfg, map, key, time, hp)

\* (a store that keeps the timestamp of the first computation)
storeResultOnce(cfg, map, key, value, time, hp) ==
    IF cfg.duration > 0
    THEN IF has(cfg, map, timestampKey(cfg, key), hp)
         THEN set(cfg, map, key, value, hp)
         ELSE set(cfg, set(cfg, map, key, value, hp), timestampKey(cfg, key), Num(time), hp)
    ELSE set(cfg, map, key, value, hp)
\* myMap.set(hashKey, returnedValue), and the timestamp when expiring
storeResult(cfg, map, key, value, time, hp) ==
    IF cfg.duration > 0
    THEN set(cfg, set(cfg, map, key, value, hp), timestampKey(cfg, key), Num(time), hp)
    ELSE set(cfg, map, key, value, hp)

\* the instance that owns the map a call on `this` consults
\* (this.hasOwnProperty(propMapName), Object.defineProperty(this, ...))
MapOwnerShared(this) == 1
MapOwner(this) == this

\* (one property name for every member of the class)
propMapNameOfClass(m) == Declaration[1]
\* the property of the instance that holds the map of member m: a Symbol
\* made once per decorated member
propMapName(m) == m

\* what is pushed on clearCacheTagsMap: the Map itself (w = 0) in shallow
\* mode, a fresh wrapper object (w > 0) around the DeepEqualMap in deep mode
Registered(i, m, w) == [i |-> i, m |-> m, w |-> w]

RECURSIVE registerTags(_, _, _, _, _)
registerTags(reg, tags, i, m, w) ==
    IF tags = <<>> THEN reg
    ELSE LET tag == Head(tags)
             mp == Registered(i, m, w)
             pushed == IF tag \in DOMAIN reg
                       THEN [reg EXCEPT ![tag] = Append(@, mp)]
                       ELSE reg @@ (tag :> <<mp>>)
         IN  registerTags(pushed, Tail(tags), i, m, IF w = 0 THEN 0 ELSE w + 1)

\* the registry after the `if (Array.isArray(tags))` loop of a call
registered(reg, cfg, i, m, wrappers) ==
    IF cfg.hasTags
    THEN registerTags(reg, cfg.tags, i, m, IF cfg.useDeepEqual THEN wrappers + 1 ELSE 0)
    ELSE reg

wrappersCreated(cfg) == IF cfg.hasTags /\ cfg.useDeepEqual THEN Len(cfg.tags) ELSE 0

\* ------------------------------------------------------------------ clear
\* (the inner loop with the test of `cleared` inverted: nothing is cleared)
clearMapsNegationLost(maps, acc) == acc
\* the inner loop of clear over the maps of one tag
RECURSIVE clearMaps(_, _)
clearMaps(maps, acc) ==
    IF maps = <<>> THEN acc
    ELSE LET mp == Head(maps)
         IN  clearMaps(Tail(maps),
                IF mp \in acc.cleared THEN acc
                ELSE [cleared |-> acc.cleared \cup {mp},
                      store |-> [acc.store EXCEPT ![mp.i][mp.m].entries = <<>>]])

\* (the outer loop taking the maps of every tag for a tag without maps)
RECURSIVE clearTagsOrAll(_, _, _)
clearTagsOrAll(tags, reg, acc) ==
    IF tags = <<>> THEN acc
    ELSE clearTagsOrAll(Tail(tags), reg,
            IF Head(tags) \in DOMAIN reg THEN clearMaps(reg[Head(tags)], acc)
            ELSE [cleared |-> acc.cleared \cup
                        UNION {{reg[t][x] : x \in 1..Len(reg[t])} : t \in DOMAIN reg},
                  store |-> [i \in DOMAIN acc.store |-> [m \in DOMAIN acc.store[i] |->
                        IF \E t \in DOMAIN reg : \E x \in 1..Len(reg[t]) :
                                reg[t][x].i = i /\ reg[t][x].m = m
                        THEN [acc.store[i][m] EXCEPT !.entries = <<>>]
                        ELSE acc.store[i][m]]]])
\* (the outer loop running over the registry's tags instead of the given ones)
RECURSIVE clearTagsOfRegistry(_, _, _)
clearTagsOfRegistry(tags, reg, acc) ==
    IF tags = <<>> \/ DOMAIN reg = {} THEN acc
    ELSE LET t == CHOOSE t \in DOMAIN reg : TRUE
         IN  clearTagsOfRegistry(tags, [u \in DOMAIN reg \ {t} |-> reg[u]],
                                 clearMaps(reg[t], acc))
RECURSIVE clearTags(_, _, _)
clearTags(tags, reg, acc) ==
    IF tags = <<>> THEN acc
    ELSE clearTags(Tail(tags), reg,
            IF Head(tags) \in DOMAIN reg THEN clearMaps(reg[Head(tags)], acc)
            ELSE acc)

\* clear(tags): the stores afterwards and the set `cleared`
clear(tags, reg, st) == clearTags(tags, reg, [cleared |-> {}, store |-> st])

\* ------------------------------------------------------------ programs
\* A program under test: a class with some of the members above, how many
\* instances it creates, how many calls it makes, how long its clock runs,
\* the argument objects it mutates, the tag lists it clears and what its
\* original methods do while they run ("call": call memoized members of
\* `this`, "clear": clear tags).
Program(name, members, instances, calls, horizon, refs, clears, body) ==
    [name |-> name, members |-> members, instances |-> instances,
     calls |-> calls, horizon |-> horizon, refs |-> refs, clears |-> clears,
     body |-> body]

Programs ==
    { Program("MyClass", {"getNumber", "getGreeting"}, 2, MaxCalls, 0, {},
              {<<"unknown">>}, {}),
      Program("Accessors", {"getNumber", "value"}, 2, MaxCalls, 0, {}, {}, {}),
      Program("BadlyUsed", {"getNumber", "value", "setValue"}, 1, MaxCalls, 0, {},
              {}, {}),
      Program("ComplicatedFoo", {"getNumber", "getGreetingShallow"}, 1, MaxCalls, 0, {},
              {<<>>}, {"call"}),
      Program("MoreComplicatedFoo", {"multiply", "multiply3"}, 1, MaxCalls, 0, {},
              {<<>>}, {}),
      Program("SameBetterFoo", {"getSameBetterGreeting"}, 1, MaxCalls, MaxTime, {},
              {}, {}),
      Program("EveryParameter", {"getGreeting2"}, 1, MaxCalls, 0, {}, {}, {}),
      Program("ClearableFoo", {"getGreeting4", "getClearableSum"}, 1, MaxCalls, 0, {},
              {<<"foo">>, <<"bar">>, <<"foo", "bar">>}, {"clear"}),
      Program("Cleared", {"getGreeting4"}, 1, TestedCalls, 0, {},
              {<<>>, <<"foo">>, <<"bar">>, <<"unknown">>}, {}),
      Program("DeepEqualityFoo", {"processObject"}, 1, MaxCalls, 0, {1},
              {<<"unknown">>}, {}),
      Program("FalsyFoo",
              {"getUndefined", "getFalse", "getZero", "getEmpty", "processNull"},
              1, MaxCalls, 0, {}, {}, {}),
      Program("DeepArguments", {"processList"}, 1, MaxCalls, 0, {}, {}, {}),
      Program("DeepTagged", {"processTagged"}, 2, MaxCalls, 0, {},
              {<<"foo">>, <<"foo", "bar">>}, {"clear"}),
      Program("SimpleFoo", {"getDataForSomeTime"}, 1, MaxCalls, MaxTime, {},
              {<<"unknown">>}, {}),
      Program("ComplexObject", {"processComplexObject"}, 1, MaxCalls, MaxTime, {},
              {<<"objects">>}, {}),
      Program("ArrayDeep", {"processArrayDeep"}, 1, MaxCalls, MaxTime, {1},
              {<<"unknown">>}, {}) }

Instances == {1, 2}
Refs == {1, 2, 3}
AllClears == UNION {q.clears : q \in Programs}

\* the 'should be cleared' test: calls of getGreeting4 on one instance and the
\* clears between them
Called(args) == [op |-> "call", args |-> args, tags |-> <<>>]
Clearing(tags) == [op |-> "clear", args |-> <<>>, tags |-> tags]
World == <<Str("Hello"), Str("World")>>
Moon == <<Str("Hello"), Str("Moon")>>
ShouldBeCleared ==
    << Called(World), Called(Moon), Called(World), Clearing(<<"foo">>),
       Called(Moon), Called(World), Clearing(<<"bar">>), Called(World) >>

\* ------------------------------------------------------------------ state
VARIABLES
    program,            \* the program under test
    descriptors,        \* the descriptors of the members of its class, and
                        \* whether its definition failed
    now,                \* Date.now()
    heap,               \* the content of each argument object
    store,              \* per instance and member: its Map / DeepEqualMap
    clearCacheTagsMap,  \* tag -> the maps registered under it, in order
    wrappers,           \* wrapper objects created so far
    stack,              \* the calls whose original method is still running
    calls,              \* calls made so far
    spy,                \* per instance and member: invocations of the
                        \* original method so far
    computed,           \* history: per instance and member, the calls that
                        \* returned a computed result since the last clear
                        \* of one of the member's tags, oldest first
    cleared,            \* history: per instance and member, whether one of
                        \* its tags was cleared since its last call
    mutated,            \* history: whether an argument object was mutated
    tested,             \* history: how far the run has followed the
                        \* 'should be cleared' test, -1 once it has left it
    last                \* the step just taken and what it returned

vars == <<program, descriptors, now, heap, store, clearCacheTagsMap, wrappers, stack,
          calls, spy, computed, cleared, mutated, tested, last>>

NoStore == [created |-> FALSE, entries |-> <<>>]

Step(op) ==
    [op |-> op, i |-> 0, m |-> "", args |-> <<>>, key |-> Undefined,
     result |-> Undefined, cleared |-> "no", count |-> 0, tags |-> <<>>,
     before |-> <<>>]

Init ==
    /\ program \in Programs
    /\ descriptors = [of |-> [m \in MemberNames |-> Members[m].descriptor],
                      decorated |-> {}, failed |-> FALSE]
    /\ now = 0
    /\ heap = [r \in Refs |-> IF r = 3 THEN Obj("B") ELSE Obj("A")]
    /\ store = [i \in Instances |-> [m \in MemberNames |-> NoStore]]
    /\ clearCacheTagsMap = << >>
    /\ wrappers = 0
    /\ stack = <<>>
    /\ calls = 0
    /\ spy = [i \in Instances |-> [m \in MemberNames |-> 0]]
    /\ computed = [i \in Instances |-> [m \in MemberNames |-> <<>>]]
    /\ cleared = [i \in Instances |-> [m \in MemberNames |-> "no"]]
    /\ mutated = FALSE
    /\ tested = 0
    /\ last = Step("new")

\* the next step of the 'should be cleared' test, or out of it
Follows(event, i, m) ==
    IF /\ tested >= 0 /\ tested < Len(ShouldBeCleared)
       /\ stack = <<>>
       /\ event.op = "call" => i = 1 /\ m = "getGreeting4"
       /\ ShouldBeCleared[tested + 1] = event
    THEN tested + 1 ELSE -1

\* the key, the map and the outcome of the lookup of a call
Consulted(i, m, args) ==
    LET cfg == Config(m)
        key == hashKey(cfg, i, args)
        map == store[MapOwner(i)][propMapName(m)].entries
    IN  [cfg |-> cfg, key |-> key, map |-> map,
         hit |-> isHit(cfg, map, key, now, heap),
         value |-> get(cfg, map, key, heap)]

\* the class of the program is defined: every member is decorated
Defined == descriptors.decorated = program.members

\* the decorator is applied to the next member of the class being defined
Decorate ==
    /\ ~Defined /\ ~descriptors.failed
    /\ LET x == CHOOSE x \in 1..Len(Declaration) :
                    /\ Declaration[x] \in program.members \ descriptors.decorated
                    /\ \A y \in 1..(x - 1) :
                          Declaration[y] \notin program.members \ descriptors.decorated
           m == Declaration[x]
           d == decorate(descriptors.of[m])
       IN  /\ descriptors' =
                IF d.thrown = ""
                THEN [descriptors EXCEPT !.of[m] = d.descriptor,
                                         !.decorated = @ \cup {m}]
                ELSE [descriptors EXCEPT !.failed = TRUE]
           /\ last' = [Step(IF d.thrown = "" THEN "decorate" ELSE "misuse")
                            EXCEPT !.m = m, !.result = Str(d.thrown)]
    /\ UNCHANGED <<program, now, heap, store, clearCacheTagsMap, wrappers, stack,
                   calls, spy, computed, cleared, mutated, tested>>

\* the wrapper function up to its lookup: the map of `this` is created, the
\* tags are registered
Begin(i, m, args) ==
    /\ Defined
    /\ i \in 1..program.instances
    /\ m \in program.members
    /\ args \in Members[m].params
    /\ calls < program.calls
    /\ stack # <<>> => "call" \in program.body /\ i = stack[Len(stack)].i
    /\ calls' = calls + 1
    /\ store' = [store EXCEPT ![MapOwner(i)][propMapName(m)].created = TRUE]
    /\ clearCacheTagsMap' =
            registered(clearCacheTagsMap, Config(m), MapOwner(i), propMapName(m), wrappers)
    /\ wrappers' = wrappers + wrappersCreated(Config(m))
    /\ cleared' = [cleared EXCEPT ![i][m] = "no"]
    /\ tested' = Follows(Called(args), i, m)
    /\ UNCHANGED <<program, descriptors, now, heap, computed, mutated>>

\* a call that is served from the map
Hit(i, m, args) ==
    LET c == Consulted(i, m, args) IN
    /\ Begin(i, m, args)
    /\ c.hit
    /\ last' = [Step("hit") EXCEPT !.i = i, !.m = m, !.args = args, !.key = c.key,
                    !.result = c.value, !.cleared = cleared[i][m]]
    /\ UNCHANGED <<stack, spy>>

\* a call whose hash function throws: the wrapper is left before its lookup
KeyThrow(i, m, args) ==
    /\ Config(m).hashFunction = "function"
    /\ Begin(i, m, args)
    /\ last' = [Step("keythrow") EXCEPT !.i = i, !.m = m, !.args = args,
                    !.before = <<store[MapOwner(i)][propMapName(m)].entries, heap>>]
    /\ UNCHANGED <<stack, spy>>

\* a call that invokes the original method, which then runs
Invoke(i, m, args) ==
    LET c == Consulted(i, m, args) IN
    /\ Begin(i, m, args)
    /\ ~c.hit
    /\ spy' = [spy EXCEPT ![i][m] = @ + 1]
    /\ stack' = Append(stack,
            [i |-> i, m |-> m, args |-> args, key |-> c.key, n |-> spy[i][m] + 1,
             snapshot |-> [x \in 1..Len(args) |-> Deref(args[x], heap)],
             before |-> <<c.map, heap>>])
    /\ last' = [Step("invoke") EXCEPT !.i = i, !.m = m, !.args = args, !.key = c.key,
                    !.cleared = cleared[i][m]]

\* the original method of the innermost call returns; its result is stored
Return ==
    /\ stack # <<>>
    /\ LET f == stack[Len(stack)]
           result == Result(f.m, Members[f.m].returns, f.snapshot, f.n)
       IN  /\ store' = [store EXCEPT ![MapOwner(f.i)][propMapName(f.m)].entries =
                            storeResult(Config(f.m), @, f.key, result, now, heap)]
           /\ computed' = [computed EXCEPT ![f.i][f.m] =
                            Append(@, [args |-> f.args, key |-> f.key,
                                       was |-> Deref(f.key, heap),
                                       result |-> result, at |-> now,
                                       depth |-> Len(stack)])]
           /\ last' = [Step("return") EXCEPT !.i = f.i, !.m = f.m, !.args = f.args,
                            !.key = f.key, !.result = result,
                            !.before = f.before]
    /\ stack' = SubSeq(stack, 1, Len(stack) - 1)
    /\ UNCHANGED <<program, descriptors, now, heap, clearCacheTagsMap, wrappers, calls, spy,
                   cleared, mutated, tested>>

\* (a throw that is memoized: undefined is stored under the key)
ThrowStoring ==
    /\ stack # <<>>
    /\ stack' = SubSeq(stack, 1, Len(stack) - 1)
    /\ store' = [store EXCEPT ![MapOwner(stack[Len(stack)].i)][propMapName(stack[Len(stack)].m)].entries =
                    storeResult(Config(stack[Len(stack)].m), @, stack[Len(stack)].key,
                                Undefined, now, heap)]
    /\ last' = [Step("throw") EXCEPT !.i = stack[Len(stack)].i,
                    !.m = stack[Len(stack)].m, !.args = stack[Len(stack)].args,
                    !.key = stack[Len(stack)].key,
                    !.before = stack[Len(stack)].before]
    /\ tested' = -1
    /\ UNCHANGED <<program, descriptors, now, heap, clearCacheTagsMap, wrappers, calls,
                   spy, computed, cleared, mutated>>

\* the original method of the innermost call throws; nothing is stored
Throw ==
    /\ stack # <<>>
    /\ stack' = SubSeq(stack, 1, Len(stack) - 1)
    /\ last' = [Step("throw") EXCEPT !.i = stack[Len(stack)].i,
                    !.m = stack[Len(stack)].m, !.args = stack[Len(stack)].args,
                    !.key = stack[Len(stack)].key,
                    !.before = stack[Len(stack)].before]
    /\ tested' = -1
    /\ UNCHANGED <<program, descriptors, now, heap, store, clearCacheTagsMap, wrappers, calls,
                   spy, computed, cleared, mutated>>

InFlight(i, m) == \E x \in 1..Len(stack) : stack[x].i = i /\ stack[x].m = m

\* (a clear that also drops the lists of the given tags from the registry)
ClearForgetting(tags) ==
    /\ Defined
    /\ tags \in program.clears
    /\ stack # <<>> => "clear" \in program.body
    /\ LET c == clear(tags, clearCacheTagsMap, store)
           given == {tags[x] : x \in 1..Len(tags)}
       IN  /\ store' = c.store
           /\ clearCacheTagsMap' =
                [t \in DOMAIN clearCacheTagsMap \ given |-> clearCacheTagsMap[t]]
           /\ last' = [Step("clear") EXCEPT !.tags = tags,
                            !.count = Cardinality(c.cleared)]
           /\ computed' = [i \in Instances |-> [m \in MemberNames |->
                            IF TagsOf(m) \cap given # {}
                            THEN <<>> ELSE computed[i][m]]]
           /\ cleared' = [i \in Instances |-> [m \in MemberNames |->
                            IF TagsOf(m) \cap given # {} /\ store[i][m].created
                            THEN (IF InFlight(i, m) THEN "inflight" ELSE "idle")
                            ELSE cleared[i][m]]]
    /\ tested' = Follows(Clearing(tags), 0, "")
    /\ UNCHANGED <<program, descriptors, now, heap, wrappers, stack, calls,
                   spy, mutated>>

\* clear(tags), from the program or from inside a running method
Clear(tags) ==
    /\ Defined
    /\ tags \in program.clears
    /\ stack # <<>> => "clear" \in program.body
    /\ LET c == clear(tags, clearCacheTagsMap, store)
           given == {tags[x] : x \in 1..Len(tags)}
       IN  /\ store' = c.store
           /\ last' = [Step("clear") EXCEPT !.tags = tags,
                            !.count = Cardinality(c.cleared)]
           /\ computed' = [i \in Instances |-> [m \in MemberNames |->
                            IF TagsOf(m) \cap given # {}
                            THEN <<>> ELSE computed[i][m]]]
           /\ cleared' = [i \in Instances |-> [m \in MemberNames |->
                            IF TagsOf(m) \cap given # {} /\ store[i][m].created
                            THEN (IF InFlight(i, m) THEN "inflight" ELSE "idle")
                            ELSE cleared[i][m]]]
    /\ tested' = Follows(Clearing(tags), 0, "")
    /\ UNCHANGED <<program, descriptors, now, heap, clearCacheTagsMap, wrappers, stack, calls,
                   spy, mutated>>

\* time passes
Tick ==
    /\ Defined
    /\ now < program.horizon
    /\ now' = now + 1
    /\ last' = Step("tick")
    /\ UNCHANGED <<program, descriptors, heap, store, clearCacheTagsMap, wrappers, stack, calls,
                   spy, computed, cleared, mutated, tested>>

\* the owner of an argument object changes its content
Mutate(r, c) ==
    /\ Defined
    /\ r \in program.refs
    /\ c \in Contents
    /\ heap[r] # c
    /\ heap' = [heap EXCEPT ![r] = c]
    /\ mutated' = TRUE
    /\ last' = Step("mutate")
    /\ UNCHANGED <<program, descriptors, now, store, clearCacheTagsMap, wrappers, stack, calls,
                   spy, computed, cleared, tested>>

Next ==
    \/ Decorate
    \/ \E i \in 1..program.instances, m \in program.members :
            \E args \in Members[m].params : Hit(i, m, args)
    \/ \E i \in 1..program.instances, m \in program.members :
            \E args \in Members[m].params : Invoke(i, m, args)
    \/ \E i \in 1..program.instances, m \in program.members :
            \E args \in Members[m].params : KeyThrow(i, m, args)
    \/ Return
    \/ Throw
    \/ \E tags \in AllClears : Clear(tags)
    \/ Tick
    \/ \E r \in Refs, c \in Contents : Mutate(r, c)

Spec == Init /\ [][Next]_vars

\* ================================================================ claims
\* the calls of computed[last.i][last.m], by index, whose key was, when they
\* returned, what the key of the call just begun is now: the same value or
\* reference for a Map, the same structure for a DeepEqualMap
sameKey(cfg, c, key, hp) ==
    IF cfg.useDeepEqual THEN c.was = Deref(key, hp) ELSE c.key = key
Began == last.op \in {"hit", "invoke"}
Computed == computed[last.i][last.m]
SameKeyComputed ==
    {x \in 1..Len(Computed) : sameKey(Config(last.m), Computed[x], last.key, heap)}
Latest(S) == CHOOSE x \in S : \A y \in S : y <= x

C2_InstancesShareNothing ==
    [][ /\ last'.op \in {"hit", "invoke", "return", "throw"}
            => \A j \in Instances : j # last'.i => store'[j] = store[j]
        /\ last'.op = "hit" => spy'[last'.i][last'.m] > 0 ]_vars

C2_Witness ==
    \E m \in MemberNames :
        /\ spy[1][m] = 1 /\ spy[2][m] = 1
        /\ Len(store[1][m].entries) = 1 /\ Len(store[2][m].entries) = 1
        /\ \E x \in 1..Len(computed[1][m]), y \in 1..Len(computed[2][m]) :
                computed[1][m][x].args = computed[2][m][y].args

\* C3 (as claimed): on a member with expiration window w, if the value for
\* key k was last computed at t0, a call with key k before t0 + w is served
\* the cached value and a call with key k after t0 + w invokes the original
\* method, whatever calls with other keys were made in between (no argument
\* object being mutated).
C3_ExpiresPerKey ==
    (Began /\ Config(last.m).duration > 0 /\ ~mutated /\ SameKeyComputed # {})
        => LET c == Computed[Latest(SameKeyComputed)]
           IN  /\ now < c.at + Config(last.m).duration
                    => last.op = "hit" /\ last.result = c.result
               /\ now > c.at + Config(last.m).duration => last.op = "invoke"

StoresTagged(tags) ==
    { <<mp.i, mp.m>> : mp \in UNION { {clearCacheTagsMap[t][x] : x \in 1..Len(clearCacheTagsMap[t])} :
            t \in {tags[x] : x \in 1..Len(tags)} \cap DOMAIN clearCacheTagsMap } }

\* C5 (as claimed): clear(tags) returns the number of distinct stores that
\* are registered under one of the tags, each counted once.
C5_CountsDistinctStores ==
    last.op = "clear" => last.count = Cardinality(StoresTagged(last.tags))

\* C6: clear with no tag, or only with tags under which no store was ever
\* registered, returns 0 and changes neither a store nor the registry.
C6_UnknownTagsClearNothing ==
    [][ (last'.op = "clear" /\ StoresTagged(last'.tags) = {})
            => /\ last'.count = 0
               /\ store' = store
               /\ clearCacheTagsMap' = clearCacheTagsMap ]_vars

C6_Witness ==
    /\ last.op = "clear" /\ last.tags \in {<<>>, <<"unknown">>} /\ last.count = 0
    /\ DOMAIN clearCacheTagsMap # {}
    /\ \E i \in Instances, m \in MemberNames :
            TagsOf(m) # {} /\ store[i][m].entries # <<>>

\* C7: clear(tags) changes no store of a member declared with none of the
\* given tags.
C7_OtherTagsUntouched ==
    [][ last'.op = "clear"
            => \A i \in Instances, m \in MemberNames :
                    TagsOf(m) \cap {last'.tags[x] : x \in 1..Len(last'.tags)} = {}
                        => store'[i][m] = store[i][m] ]_vars

C7_Witness ==
    /\ last.op = "clear" /\ last.tags = <<"foo">> /\ last.count = 1
    /\ store[1]["getGreeting4"].created /\ store[1]["getGreeting4"].entries = <<>>
    /\ store[1]["getClearableSum"].entries # <<>>

\* C8 (as claimed): a member decorated with Memoize() and no options is keyed
\* by its whole argument list: every call returns the result computed for
\* its own arguments, so two calls that differ in the second argument invoke
\* the original method twice.
C8_DefaultConsidersAllArguments ==
    (last.op \in {"hit", "return"} /\ Members[last.m].decorator = NoOptions)
        => last.result.e = [x \in 1..Len(last.args) |-> Deref(last.args[x], heap)]

\* the members keyed by their first argument
FirstArgumentKeyed(m) ==
    /\ ~Config(m).useDeepEqual
    /\ Config(m).hashFunction = "undefined"
FirstArgumentComputed ==
    {x \in 1..Len(Computed) :
        Len(Computed[x].args) >= 1 /\ Computed[x].args[1] = last.args[1]}

StructurallyEqualComputed ==
    {x \in 1..Len(Computed) :
        Computed[x].result.e = [y \in 1..Len(last.args) |-> Deref(last.args[y], heap)]}

EveryArgumentKeyed(m) ==
    Config(m).hashFunction = "true" /\ Config(m).duration = 0
SameArgumentsComputed ==
    {x \in 1..Len(Computed) : Computed[x].args = last.args}

\* C11 (as claimed): on a member with hashFunction true, a call with the
\* argument list of an earlier call is served that call's result without
\* invoking the original method, and calls whose argument lists differ in a
\* position have different keys: a call is only ever served a result that
\* was computed for its own argument list.
C11_EveryParameterConsidered ==
    (Began /\ EveryArgumentKeyed(last.m))
        => /\ SameArgumentsComputed # {} =>
                /\ last.op = "hit"
                /\ \E x \in SameArgumentsComputed : Computed[x].result = last.result
           /\ last.op = "hit" => last.result.e = last.args

\* the members keyed by the user's hash function
CustomKeyed(m) == Config(m).hashFunction = "function"
KeyedAlike == {x \in 1..Len(Computed) :
                    userHashFunction(last.i, Computed[x].args) = last.key}

Failed == last.op \in {"throw", "keythrow"}
\* whether the call that just failed would now be served from the map
ServedAgain ==
    isHit(Config(last.m), store[last.i][last.m].entries,
          hashKey(Config(last.m), last.i, last.args), now, heap)

Unwrappable(d) == d.value = "undefined" /\ d.get = "undefined"

\* C14: applying the decorator to a member whose descriptor has neither a
\* value nor a get accessor throws, when the class is defined, the message
\* that names the misuse and leaves every descriptor as it was: no wrapper is
\* installed, the class is not defined and no call is ever made on it.
C14_MisuseThrowsAtDecoration ==
    [][ /\ (last'.op \in {"decorate", "misuse"} /\ Unwrappable(descriptors.of[last'.m]))
            => /\ last'.op = "misuse"
               /\ last'.result = Str(OnlyPut)
               /\ descriptors'.of = descriptors.of
               /\ descriptors'.decorated = descriptors.decorated
               /\ ~Defined'
        /\ last'.op \in {"hit", "invoke", "keythrow", "return", "throw"}
            => /\ ~descriptors.failed
               /\ "getNewFunction" \in {descriptors.of[last'.m].value,
                                        descriptors.of[last'.m].get} ]_vars

C14_Witness ==
    /\ last.op = "misuse" /\ last.m = "setValue"
    /\ descriptors.failed
    /\ descriptors.of["setValue"] = Setter
    /\ descriptors.of["value"].get = "getNewFunction"
    /\ calls = 0

\* the result that the last call of member m on instance i that returned
\* under the key of its x-th computed call has computed
LatestUnder(i, m, x) ==
    LET S == {y \in 1..Len(computed[i][m]) : computed[i][m][y].key = computed[i][m][x].key}
    IN  computed[i][m][Latest(S)].result

\* C15: in a class whose methods call memoized members of the same instance
\* while they run, every call that has returned, nested or not, has its
\* result in the store of its own member under its own key (the last result
\* computed under that key), whatever calls were nested in it or around it.
C15_NestedCallsKeepEntries ==
    "call" \in program.body =>
        \A i \in Instances, m \in MemberNames : \A x \in 1..Len(computed[i][m]) :
            /\ has(Config(m), store[i][m].entries, computed[i][m][x].key, heap)
            /\ get(Config(m), store[i][m].entries, computed[i][m][x].key, heap)
                    = LatestUnder(i, m, x)

C15_Witness ==
    /\ "call" \in program.body /\ stack = <<>> /\ last.op = "return"
    /\ \E x \in 1..Len(computed[1]["getNumber"]) : computed[1]["getNumber"][x].depth = 2
    /\ \E x, y \in 1..Len(computed[1]["getGreetingShallow"]) :
            /\ computed[1]["getGreetingShallow"][x].depth = 1
            /\ computed[1]["getGreetingShallow"][y].depth = 2
            /\ computed[1]["getGreetingShallow"][x].key # computed[1]["getGreetingShallow"][y].key
    /\ Len(store[1]["getGreetingShallow"].entries) = 2
    /\ Len(store[1]["getNumber"].entries) = 1

\* the store the call just begun has consulted, and the timestamp record of
\* its key there
Entries == store[last.i][last.m].entries
Timestamp ==
    get(Config(last.m), Entries, timestampKey(Config(last.m), last.key), heap)
Timestamped ==
    /\ has(Config(last.m), Entries, timestampKey(Config(last.m), last.key), heap)
    /\ Timestamp.t = "number"

\* C16: on an expiring member with window w, a call that finds a value and a
\* timestamp record t under its key invokes the original method exactly when
\* now - t > w; at now = t + w it is still served the cached value.
C16_StalenessIsStrict ==
    (Began /\ Config(last.m).duration > 0 /\ Timestamped
           /\ has(Config(last.m), Entries, last.key, heap))
        => /\ last.op = "invoke" <=> now - Timestamp.n > Config(last.m).duration
           /\ last.op = "hit" =>
                last.result = get(Config(last.m), Entries, last.key, heap)

C16_Witness ==
    /\ last.op = "hit" /\ Config(last.m).duration > 0 /\ Config(last.m).useDeepEqual
    /\ Timestamped
    /\ now - Timestamp.n = Config(last.m).duration

\* the same boundary in shallow mode
C16_WitnessShallow ==
    /\ last.op = "hit" /\ Config(last.m).duration > 0 /\ ~Config(last.m).useDeepEqual
    /\ Timestamped
    /\ now - Timestamp.n = Config(last.m).duration

\* the call just begun has the key of the call of its member that returned
\* last
LastComputedHere ==
    SameKeyComputed # {} /\ Latest(SameKeyComputed) = Len(Computed)

FoundUnstamped ==
    /\ has(Config(last.m), last.before[1], last.key, last.before[2])
    /\ ~has(Config(last.m), last.before[1],
            timestampKey(Config(last.m), last.key), last.before[2])

\* C18: on an expiring member, a call that finds a value under its key and
\* no timestamp record invokes the original method, and when the method
\* returns the store holds the new value and the time of the return.
C18_MissingTimestampIsStale ==
    /\ (Began /\ Config(last.m).duration > 0
              /\ has(Config(last.m), Entries, last.key, heap)
              /\ ~has(Config(last.m), Entries,
                      timestampKey(Config(last.m), last.key), heap))
        => last.op = "invoke"
    /\ (last.op = "return" /\ Config(last.m).duration > 0 /\ FoundUnstamped)
        => /\ has(Config(last.m), Entries, last.key, heap)
           /\ get(Config(last.m), Entries, last.key, heap) = last.result
           /\ Timestamped
           /\ Timestamp = Num(now)

\* a call that found a value without timestamp record has returned
C18_Witness ==
    /\ last.op = "return" /\ Config(last.m).duration > 0 /\ FoundUnstamped
    /\ spy[last.i][last.m] > 1

\* C19: after any sequence of calls, each store appears at most once in the
\* registry's list of each tag.
C19_RegisteredOnce ==
    \A t \in DOMAIN clearCacheTagsMap :
        \A x, y \in 1..Len(clearCacheTagsMap[t]) :
            (/\ clearCacheTagsMap[t][x].i = clearCacheTagsMap[t][y].i
             /\ clearCacheTagsMap[t][x].m = clearCacheTagsMap[t][y].m)
                => x = y

\* C20: a clear leaves the registry as it was, and after it every store
\* registered under one of its tags is empty, whether or not the store was
\* cleared and filled again before.
C20_ClearKeepsRegistry ==
    [][last'.op = "clear" =>
        /\ clearCacheTagsMap' = clearCacheTagsMap
        /\ \A t \in DOMAIN clearCacheTagsMap :
                \A x \in 1..Len(clearCacheTagsMap[t]) :
                    t \in {last'.tags[y] : y \in 1..Len(last'.tags)} =>
                        store'[clearCacheTagsMap[t][x].i][clearCacheTagsMap[t][x].m].entries = <<>>
      ]_vars

\* the second clear of the 'should be cleared' test: the store, filled again
\* after the first clear, is empty and still registered
C20_Witness ==
    /\ tested = 7 /\ last.op = "clear" /\ last.count > 0
    /\ \A s \in StoresTagged(last.tags) : store[s[1]][s[2]].entries = <<>>
    /\ StoresTagged(last.tags) # {}

\* the deep-equality members keyed by their arguments
ArgumentsKeyed(m) ==
    Config(m).useDeepEqual /\ Config(m).hashFunction = "undefined"

\* C21: on a deep-equality member without key function and without the
\* every-argument flag, calls whose argument lists are structurally different
\* share no entry: as long as no argument object was mutated, a call is only
\* ever served a result that was computed for an argument list structurally
\* equal to its own.
C21_ArgumentListsKeptApart ==
    (Began /\ ArgumentsKeyed(last.m) /\ ~mutated /\ last.op = "hit")
        => last.result.e = [y \in 1..Len(last.args) |-> Deref(last.args[y], heap)]

\* the entries of a store whose keys have now the structure of key
EqualKeyed(entries, key) ==
    {x \in 1..Len(entries) : Deref(entries[x].key, heap) = Deref(key, heap)}
DeepStores ==
    {s \in Instances \X MemberNames : Config(s[2]).useDeepEqual}

C23_ValuesAndTimestampsApart ==
    (Began /\ Config(last.m).duration > 0)
        => /\ last.op = "hit" =>
                \E x \in 1..Len(Computed) : Computed[x].result = last.result
           /\ has(Config(last.m), Entries,
                  timestampKey(Config(last.m), last.key), heap)
                => Timestamp.t = "number"

\* C24: the store of a member holds no result of another member's method,
\* and a call that is served a method's result is served a result of its own
\* member's method, which was invoked on that instance before.
C24_MembersShareNothing ==
    /\ \A i \in Instances : \A m \in MemberNames :
            \A x \in 1..Len(store[i][m].entries) :
                store[i][m].entries[x].value.t = "result"
                    => store[i][m].entries[x].value.s = m
    /\ (last.op = "hit" /\ last.result.t = "result")
        => /\ last.result.s = last.m
           /\ spy[last.i][last.m] > 0

\* two members of one instance hold, each in its own store and under the
\* same key, the result of their own method
C24_Witness ==
    /\ last.op = "return"
    /\ \E m \in MemberNames \ {last.m} :
            /\ Map_has(store[last.i][m].entries, last.key)
            /\ Map_get(store[last.i][m].entries, last.key).s = m
            /\ Map_get(Entries, last.key).s = last.m

\* the members whose method returns undefined, null, 0, false or ''
ReturnsFalsy(m) == Members[m].returns # "value"

\* C25: on a member whose method returns undefined, null, 0, false or the
\* empty string, in shallow and in deep-equality mode, a call with the key
\* of a call that has returned is served from the store, the original method
\* is not invoked again, and what it is served is that same value.
C25_PresenceDecidesHit ==
    (Began /\ ReturnsFalsy(last.m) /\ SameKeyComputed # {})
        => /\ last.op = "hit"
           /\ last.result = Computed[Latest(SameKeyComputed)].result
           /\ Returned(last.result) \in Falsy

\* a hit on a cached null in deep-equality mode
C25_Witness ==
    /\ last.op = "hit" /\ Config(last.m).useDeepEqual
    /\ Returned(last.result) = Null
    /\ spy[last.i][last.m] = 1
\* a hit on a cached undefined of a parameter-less member in shallow mode
C25_WitnessShallow ==
    /\ last.op = "hit" /\ ~Config(last.m).useDeepEqual /\ last.args = <<>>
    /\ Returned(last.result) = Undefined
    /\ spy[last.i][last.m] = 1

\* the members that take one argument
OneArgument(m) == \A a \in Members[m].params : Len(a) = 1

\* C26: on a deep-equality member that takes one argument, whether or not an
\* argument object was mutated after it was passed, a call that is served
\* from the store is served a result that the original method computed for
\* an argument that had, when the method was invoked, the structure the
\* argument of the call has now.
C26_HitsSurviveMutation ==
    (last.op = "hit" /\ ArgumentsKeyed(last.m) /\ OneArgument(last.m))
        => \E x \in 1..Len(Computed) :
                /\ Computed[x].result = last.result
                /\ Computed[x].result.e = <<Deref(last.args[1], heap)>>

\* C27: when a tag of a member was cleared while a call of the member was in
\* flight on the instance, the next call of the member on that instance
\* invokes the original method: it is not served a result whose computation
\* began before the clear.
C27_ClearInFlightInvalidates ==
    (Began /\ last.cleared = "inflight") => last.op = "invoke"

====
